---- MODULE Spec2Model ----
(***************************************************************************)
(* Model of src/app.py: the load/clean/aggregate pipeline (load_data), the *)
(* enterprise lookup, the industry lookup and the multi-industry           *)
(* comparison.  Tables are sequences of rows (a DataFrame keeps row        *)
(* order).  Numbers are exact fractions [k, n, d]; k = "null" is NaN.      *)
(***************************************************************************)
EXTENDS Integers, Sequences, FiniteSets, TLC

VARIABLES pc, error, raw, enterprise_data, industry_avg,
          page, query, selected_industries, result, unique, detail,
          x_data, y_data_list, overall_avg, raised

vars == <<pc, error, raw, enterprise_data, industry_avg,
          page, query, selected_industries, result, unique, detail,
          x_data, y_data_list, overall_avg, raised>>

\* Largest number of rows of the raw sheet.
MaxRows == 2

(***************************************************************************)
(* Cells.                                                                  *)
(***************************************************************************)
\* A numeric cell: the fraction n/d, or NaN.
NaN == [k |-> "null", n |-> 0, d |-> 1]
Num(n, d) == [k |-> "num", n |-> n, d |-> d]
\* A cell of a numeric column holding text: parsable as the number n/d
\* ("numtext") or not parsable ("text").
NumText(n, d) == [k |-> "numtext", n |-> n, d |-> d]
BadText == [k |-> "text", n |-> 0, d |-> 1]
\* A string cell: a sequence of characters, or null (an empty Excel cell).
NullStr == [k |-> "null", s |-> <<>>]
Str(s) == [k |-> "str", s |-> s]

isna(cell) == cell.k = "null"
notna(cell) == ~isna(cell)

RECURSIVE GCD(_, _)
GCD(a, b) == IF b = 0 THEN a ELSE GCD(b, a % b)

\* The fraction n/d (n >= 0, d > 0) in lowest terms.
Frac(n, d) == LET g == GCD(n, d) IN Num(n \div g, d \div g)

RECURSIVE SumNum(_)
\* Sum of the non-NaN cells of a sequence, as <<numerator, denominator>>.
SumNum(cells) ==
    IF cells = <<>> THEN <<0, 1>>
    ELSE LET c == Head(cells)
             r == SumNum(Tail(cells))
         IN IF isna(c) THEN r
            ELSE <<c.n * r[2] + r[1] * c.d, c.d * r[2]>>

\* Series.mean() / GroupBy.mean(): skipna, NaN when nothing is left.
mean(cells) ==
    LET used == SelectSeq(cells, notna)
        s == SumNum(used)
    IN IF used = <<>> THEN NaN ELSE Frac(s[1], s[2] * Len(used))

(***************************************************************************)
(* Strings and ordering.                                                   *)
(***************************************************************************)
Alphabet == {".", "A", "B", "J", "K", "a", "b", "j", "k"}

\* Code point order of the characters used.
CharOrd(c) ==
    CASE c = "." -> 46 [] c = "A" -> 65 [] c = "B" -> 66 [] c = "J" -> 74
      [] c = "K" -> 75 [] c = "a" -> 97 [] c = "b" -> 98 [] c = "j" -> 106
      [] c = "k" -> 107 [] OTHER -> 65000

Ords(s) == [i \in 1..Len(s) |-> CharOrd(s[i])]

RECURSIVE SeqLess(_, _)
\* Lexicographic order of integer sequences (Python str / int comparison).
SeqLess(a, b) ==
    IF b = <<>> THEN FALSE
    ELSE IF a = <<>> THEN TRUE
    ELSE IF Head(a) # Head(b) THEN Head(a) < Head(b)
    ELSE SeqLess(Tail(a), Tail(b))

RECURSIVE KeyLess(_, _)
\* Lexicographic order of sort keys (a key is a tuple of integer sequences).
KeyLess(k1, k2) ==
    IF k1 = <<>> \/ k2 = <<>> THEN FALSE
    ELSE IF Head(k1) # Head(k2) THEN SeqLess(Head(k1), Head(k2))
    ELSE KeyLess(Tail(k1), Tail(k2))

RECURSIVE InsertKeyed(_, _)
InsertKeyed(x, sorted) ==
    IF sorted = <<>> THEN <<x>>
    ELSE IF KeyLess(Head(sorted).key, x.key)
         THEN <<Head(sorted)>> \o InsertKeyed(x, Tail(sorted))
         ELSE <<x>> \o sorted

RECURSIVE SortKeyed(_)
\* Stable ascending sort of [key, row] pairs (the multi-column sort_values
\* and the group-key sort of groupby).
SortKeyed(pairs) ==
    IF pairs = <<>> THEN <<>>
    ELSE InsertKeyed(Head(pairs), SortKeyed(Tail(pairs)))

Rows(pairs) == [i \in 1..Len(pairs) |-> pairs[i].row]

RECURSIVE drop_duplicates(_)
\* DataFrame.drop_duplicates(): keep the first of equal rows.
drop_duplicates(t) ==
    IF t = <<>> THEN <<>>
    ELSE LET init == drop_duplicates(SubSeq(t, 1, Len(t) - 1))
             last == t[Len(t)]
         IN IF \E i \in 1..Len(init) : init[i] = last THEN init
            ELSE Append(init, last)

Range(s) == {s[i] : i \in 1..Len(s)}

(***************************************************************************)
(* load_data                                                               *)
(***************************************************************************)
required_columns == {"code", "name", "year", "index", "icode", "iname"}

missing_cols(cols) == required_columns \ cols

\* pd.to_numeric(errors="coerce")
to_numeric(cell) ==
    CASE cell.k = "num" -> cell
      [] cell.k = "numtext" -> Num(cell.n, cell.d)
      [] OTHER -> NaN

\* astype(int) of a non-NaN float: truncation.
astype_int(cell) == cell.n \div cell.d

AllPresent(r) == \A c \in required_columns : notna(r[c])

dropna(t) == SelectSeq(t, AllPresent)

YearNumeric(r) == notna(to_numeric(r.year))

CoerceRow(r) ==
    [code |-> r.code, name |-> r.name, year |-> astype_int(to_numeric(r.year)),
     index |-> to_numeric(r.index), icode |-> r.icode, iname |-> r.iname]

CoerceTypes(t) ==
    LET kept == SelectSeq(t, YearNumeric)
    IN [i \in 1..Len(kept) |-> CoerceRow(kept[i])]

\* drop_duplicates() left out.
DedupeKeepAll(t) == t

Dedupe(t) == drop_duplicates(t)

\* The cleaned table df_clean of load_data.
Clean(rows) == Dedupe(CoerceTypes(dropna(rows)))

GroupKey(r) == <<Ords(r.icode.s), Ords(r.iname.s), <<r.year>>>>

SameGroup(r, g) == r.icode = g.icode /\ r.iname = g.iname /\ r.year = g.year

GroupIndex(t, g) ==
    LET members == SelectSeq(t, LAMBDA r : SameGroup(r, g))
    IN [i \in 1..Len(members) |-> members[i].index]

\* The mean over all rows of the group, a missing index counted as 0.
GroupMeanZeroFilled(cells) ==
    LET s == SumNum(cells) IN Frac(s[1], s[2] * Len(cells))

GroupMean(cells) == mean(cells)

\* groupby([icode, iname, year])[index].mean().reset_index()
Aggregate(t) ==
    LET keys == drop_duplicates([i \in 1..Len(t) |->
                    [icode |-> t[i].icode, iname |-> t[i].iname, year |-> t[i].year]])
        sorted == Rows(SortKeyed([i \in 1..Len(keys) |->
                    [key |-> GroupKey(keys[i]), row |-> keys[i]]]))
    IN [i \in 1..Len(sorted) |->
          [icode |-> sorted[i].icode, iname |-> sorted[i].iname,
           year |-> sorted[i].year, avg |-> GroupMean(GroupIndex(t, sorted[i]))]]

(***************************************************************************)
(* Matcher: Series.str.contains(query, case=False, na=False).  The query   *)
(* is a regular expression (the default regex=True); of the characters of  *)
(* Alphabet only "." is special and stands for any character.              *)
(***************************************************************************)
Lower(c) ==
    CASE c = "A" -> "a" [] c = "B" -> "b" [] c = "J" -> "j" [] c = "K" -> "k"
      [] OTHER -> c

PatCharMatches(p, c) == p = "." \/ Lower(p) = Lower(c)

MatchAt(s, pat, pos) ==
    \A i \in 1..Len(pat) : PatCharMatches(pat[i], s[pos + i - 1])

str_contains(cell, pat) ==
    /\ notna(cell)
    /\ \E pos \in 1..(Len(cell.s) - Len(pat) + 1) : MatchAt(cell.s, pat, pos)

\* filter_mask of a lookup: OR of the clauses of the non-empty queries.
filter_mask(codeCell, nameCell, code_query, name_query) ==
    \/ code_query # <<>> /\ str_contains(codeCell, code_query)
    \/ name_query # <<>> /\ str_contains(nameCell, name_query)

(***************************************************************************)
(* Selection labels: f"{name}（代码：{code}）" and its parsing by split.     *)
(***************************************************************************)
Marker == "(code:"
Closer == ")"

Label(name, code) == name \o <<Marker>> \o code \o <<Closer>>

\* Position of the first Marker at or after position from; Len + 1 if none.
FirstMarker(s, from) ==
    IF \E i \in from..Len(s) : s[i] = Marker
    THEN CHOOSE i \in from..Len(s) :
             s[i] = Marker /\ \A j \in from..(i - 1) : s[j] # Marker
    ELSE Len(s) + 1

\* label.split("（代码：")[0]
SplitName(label) == SubSeq(label, 1, FirstMarker(label, 1) - 1)

NotCloser(c) == c # Closer

\* label.split("（代码：")[1].replace("）", "")
SplitCode(label) ==
    LET first == FirstMarker(label, 1)
        second == FirstMarker(label, first + 1)
    IN SelectSeq(SubSeq(label, first + 1, second - 1), NotCloser)

(***************************************************************************)
(* Sorting and alignment.                                                  *)
(***************************************************************************)
\* The sort key when the year is left out of the sort columns.
NameKeyOnly(name, year) == <<Ords(name)>>

\* The sort key of sort_values([name column, "year"]).
NameYearKey(name, year) == <<Ords(name), <<year>>>>

\* sort_values(["name", "year"]) of enterprise rows: stable.
SortEntByNameYear(t) ==
    Rows(SortKeyed([i \in 1..Len(t) |->
            [key |-> NameYearKey(t[i].name.s, t[i].year), row |-> t[i]]]))

\* sort_values(["iname", "year"]) of industry-average rows: stable.
SortIndByNameYear(t) ==
    Rows(SortKeyed([i \in 1..Len(t) |->
            [key |-> NameYearKey(t[i].iname.s, t[i].year), row |-> t[i]]]))

Perms(n) == {f \in [1..n -> 1..n] : \A i, j \in 1..n : i # j => f[i] # f[j]}

\* sort_values("year"): a single-column sort uses quicksort, which is not
\* stable; every ordering of the rows that is ascending in year is possible.
SortByYear(t) ==
    LET n == Len(t)
    IN {[i \in 1..n |-> t[f[i]]] :
          f \in {g \in Perms(n) : \A i \in 1..(n - 1) : t[g[i]].year <= t[g[i + 1]].year}}

Years(t) == [i \in 1..Len(t) |-> t[i].year]
Avgs(t) == [i \in 1..Len(t) |-> t[i].avg]

HasDuplicates(s) == \E i, j \in 1..Len(s) : i # j /\ s[i] = s[j]

\* series.set_index("year").reindex(target): the values of the rows of
\* series at the years of target.  An index equal to the target is returned
\* as it is; otherwise an index with duplicate labels raises ValueError and a
\* label that is absent gives NaN.
reindex(series, target) ==
    IF Years(series) = target THEN [err |-> FALSE, vals |-> Avgs(series)]
    ELSE IF HasDuplicates(Years(series)) THEN [err |-> TRUE, vals |-> <<>>]
    ELSE [err |-> FALSE,
          vals |-> [i \in 1..Len(target) |->
                      IF \E j \in 1..Len(series) : series[j].year = target[i]
                      THEN series[CHOOSE j \in 1..Len(series) :
                                      series[j].year = target[i]].avg
                      ELSE NaN]]

\* Series.unique(): distinct values in order of first appearance.
unique_values(s) == drop_duplicates(s)

(***************************************************************************)
(* load_data and the module-level assignment of line 110.                  *)
(***************************************************************************)
NoError == [kind |-> "none", missing |-> {}]

\* st.error(...) without st.stop(): the run goes on with empty tables.
StoppedContinues(kind, missing) ==
    [stopped |-> FALSE, error |-> [kind |-> kind, missing |-> missing],
     df_clean |-> <<>>, industry_avg |-> <<>>]

\* st.error(...) followed by st.stop(): the script run ends, nothing is
\* returned.
Stopped(kind, missing) ==
    [stopped |-> TRUE, error |-> [kind |-> kind, missing |-> missing],
     df_clean |-> <<>>, industry_avg |-> <<>>]

load_data(src) ==
    IF src.status = "notfound" THEN Stopped("SourceNotFound", {})
    ELSE IF src.status = "unreadable" THEN Stopped("SourceUnreadable", {})
    ELSE IF missing_cols(src.cols) # {}
         THEN Stopped("SchemaError", missing_cols(src.cols))
    ELSE LET df_clean == Clean(src.rows)
         IN [stopped |-> FALSE, error |-> NoError,
             df_clean |-> df_clean, industry_avg |-> Aggregate(df_clean)]

NoQuery == [code_query |-> <<>>, name_query |-> <<>>]
NoRaw == [cols |-> {}, rows |-> <<>>]

\* Nothing is rendered by a query page.
NoPage ==
    /\ page' = "none"
    /\ query' = NoQuery
    /\ selected_industries' = <<>>
    /\ result' = <<>>
    /\ unique' = <<>>
    /\ detail' = <<>>
    /\ x_data' = <<>>
    /\ y_data_list' = <<>>
    /\ overall_avg' = <<>>
    /\ raised' = "none"

Init ==
    /\ pc = "start"
    /\ error = NoError
    /\ raw = NoRaw
    /\ enterprise_data = <<>>
    /\ industry_avg = <<>>
    /\ page = "none"
    /\ query = NoQuery
    /\ selected_industries = <<>>
    /\ result = <<>>
    /\ unique = <<>>
    /\ detail = <<>>
    /\ x_data = <<>>
    /\ y_data_list = <<>>
    /\ overall_avg = <<>>
    /\ raised = "none"

\* First script run: load_data() reads the sheet; its result is cached and
\* bound to enterprise_data, industry_avg (line 110), or the run stops.
LoadData(Sources) ==
    /\ pc = "start"
    /\ \E src \in Sources :
          LET out == load_data(src)
          IN /\ raw' = IF src.status = "ok"
                       THEN [cols |-> src.cols, rows |-> src.rows] ELSE NoRaw
             /\ pc' = IF out.stopped THEN "stopped" ELSE "ready"
             /\ error' = out.error
             /\ enterprise_data' = out.df_clean
             /\ industry_avg' = out.industry_avg
    /\ NoPage

\* A stopped run cached nothing: the next script run starts over.
Rerun ==
    /\ pc = "stopped"
    /\ pc' = "start"
    /\ error' = NoError
    /\ raw' = NoRaw
    /\ UNCHANGED <<enterprise_data, industry_avg>>
    /\ NoPage

\* A further script run after a successful load: load_data() is served from
\* the cache (line 64) and the page of the previous run is discarded.
RerunCached ==
    /\ pc = "ready"
    /\ page # "none"
    /\ UNCHANGED <<pc, error, raw, enterprise_data, industry_avg>>
    /\ NoPage

(***************************************************************************)
(* Enterprise lookup (lines 198-286).                                      *)
(***************************************************************************)
EntPair(r) == [code |-> r.code, name |-> r.name]
IndPair(r) == [code |-> r.icode, name |-> r.iname]

EntMatches(t, code_query, name_query) ==
    SelectSeq(t, LAMBDA r : filter_mask(r.code, r.name, code_query, name_query))

\* result of the enterprise lookup (line 221).
EnterpriseResult(t, code_query, name_query) ==
    SortEntByNameYear(EntMatches(t, code_query, name_query))

\* unique_enterprises (line 228).
UniqueEnterprises(res) ==
    drop_duplicates([i \in 1..Len(res) |-> EntPair(res[i])])

\* Rows of the entity chosen in the selectbox (lines 229-248), before the
\* sort by year.
EntitySelect(res, uniq, sel) ==
    IF Len(uniq) > 1
    THEN LET label == Label(uniq[sel].name.s, uniq[sel].code.s)
         IN SelectSeq(res, LAMBDA r : r.name.s = SplitName(label)
                                      /\ r.code.s = SplitCode(label))
    ELSE res

\* industry_index before its sort by year (lines 257-260): the rows of
\* industry_avg with the industry CODE of the first detail row and a year of
\* the detail rows.
IndustryIndex(avg, det) ==
    SelectSeq(avg, LAMBDA a : a.icode = det[1].icode
                              /\ a.year \in Range(Years(det)))

\* The filtered frame assigned back to the table.
TableReplacedByFilter(table, derived) == derived

\* The cached tables after a query page has run: every query filters and
\* sorts into new frames (lines 221, 314, 388) and renames in place only the
\* derived overall_avg (line 391).
TableAfterQuery(table, derived) == table

\* entRows, indRows: the rows the page filtered out of each table.
Cached(entRows, indRows) ==
    /\ enterprise_data' = TableAfterQuery(enterprise_data, entRows)
    /\ industry_avg' = TableAfterQuery(industry_avg, indRows)

EnterpriseLookup(Q) ==
    /\ pc = "ready"
    /\ page = "none"
    /\ \E code_query \in Q, name_query \in Q :
          LET res == EnterpriseResult(enterprise_data, code_query, name_query)
              uniq == UniqueEnterprises(res)
          IN /\ page' = "enterprise"
             /\ query' = [code_query |-> code_query, name_query |-> name_query]
             /\ selected_industries' = <<>>
             /\ overall_avg' = <<>>
             /\ IF (code_query = <<>> /\ name_query = <<>>) \/ res = <<>>
                THEN /\ result' = IF code_query = <<>> /\ name_query = <<>>
                                  THEN <<>> ELSE res
                     /\ unique' = <<>>
                     /\ detail' = <<>>
                     /\ x_data' = <<>>
                     /\ y_data_list' = <<>>
                     /\ raised' = "none"
                ELSE \E sel \in 1..Len(uniq) :
                     \E det \in SortByYear(EntitySelect(res, uniq, sel)) :
                        /\ result' = res
                        /\ unique' = uniq
                        /\ detail' = det
                        /\ IF det = <<>>
                           THEN /\ raised' = "IndexError"
                                /\ x_data' = <<>>
                                /\ y_data_list' = <<>>
                           ELSE \E ind \in SortByYear(IndustryIndex(industry_avg, det)) :
                                  LET merged_years == Years(det)
                                      aligned == reindex(ind, merged_years)
                                  IN /\ x_data' = merged_years
                                     /\ raised' = IF aligned.err THEN "ValueError"
                                                  ELSE "none"
                                     /\ y_data_list' =
                                          IF aligned.err THEN <<>>
                                          ELSE <<[i \in 1..Len(det) |-> det[i].index],
                                                 aligned.vals>>
    /\ UNCHANGED <<pc, error, raw>>
    /\ Cached(IF query' = NoQuery THEN enterprise_data
              ELSE EntMatches(enterprise_data, query'.code_query, query'.name_query),
              industry_avg)

(***************************************************************************)
(* Industry lookup (lines 291-362).                                        *)
(***************************************************************************)
IndMatches(t, code_query, name_query) ==
    SelectSeq(t, LAMBDA r : filter_mask(r.icode, r.iname, code_query, name_query))

\* result of the industry lookup (line 314).
IndustryResult(t, code_query, name_query) ==
    SortIndByNameYear(IndMatches(t, code_query, name_query))

\* unique_industries (line 321).
UniqueIndustries(res) ==
    drop_duplicates([i \in 1..Len(res) |-> IndPair(res[i])])

IndustrySelect(res, uniq, sel) ==
    IF Len(uniq) > 1
    THEN LET label == Label(uniq[sel].name.s, uniq[sel].code.s)
         IN SelectSeq(res, LAMBDA r : r.iname.s = SplitName(label)
                                      /\ r.icode.s = SplitCode(label))
    ELSE res

IndustryLookup(Q) ==
    /\ pc = "ready"
    /\ page = "none"
    /\ \E code_query \in Q, name_query \in Q :
          LET res == IndustryResult(industry_avg, code_query, name_query)
              uniq == UniqueIndustries(res)
          IN /\ page' = "industry"
             /\ query' = [code_query |-> code_query, name_query |-> name_query]
             /\ selected_industries' = <<>>
             /\ overall_avg' = <<>>
             /\ IF (code_query = <<>> /\ name_query = <<>>) \/ res = <<>>
                THEN /\ result' = IF code_query = <<>> /\ name_query = <<>>
                                  THEN <<>> ELSE res
                     /\ unique' = <<>>
                     /\ detail' = <<>>
                     /\ x_data' = <<>>
                     /\ y_data_list' = <<>>
                     /\ raised' = "none"
                ELSE \E sel \in 1..Len(uniq) :
                     \E det \in SortByYear(IndustrySelect(res, uniq, sel)) :
                        /\ result' = res
                        /\ unique' = uniq
                        /\ detail' = det
                        /\ x_data' = Years(det)
                        /\ y_data_list' = <<Avgs(det)>>
                        /\ raised' = "none"
    /\ UNCHANGED <<pc, error, raw>>
    /\ Cached(enterprise_data,
              IF query' = NoQuery THEN industry_avg
              ELSE IndMatches(industry_avg, query'.code_query, query'.name_query))

(***************************************************************************)
(* Multi-industry comparison (lines 367-438).                              *)
(***************************************************************************)
\* The options of the multiselect (lines 373-377), as a set.
IndustryOptions(avg) ==
    {Label(a.iname.s, a.icode.s) : a \in Range(avg)}

\* The lists a user can select: the options in any order, none twice.
Selections(options) ==
    UNION {{sq \in [1..n -> options] : \A i, j \in 1..n : i # j => sq[i] # sq[j]} :
             n \in 0..Cardinality(options)}

selected_ind_names(sel) == [i \in 1..Len(sel) |-> SplitName(sel[i])]
selected_ind_codes(sel) == [i \in 1..Len(sel) |-> SplitCode(sel[i])]

\* compare_data (line 388): the rows whose industry NAME is a selected name.
CompareData(avg, sel) ==
    SortIndByNameYear(
        SelectSeq(avg, LAMBDA a : a.iname.s \in Range(selected_ind_names(sel))))

RECURSIVE SortInts(_)
SortInts(S) ==
    IF S = {} THEN <<>>
    ELSE LET m == CHOOSE x \in S : \A y \in S : x <= y
         IN <<m>> \o SortInts(S \ {m})

\* overall_avg (lines 390-391): groupby("year") mean of compare_data.
OverallAvg(cd) ==
    LET ys == SortInts(Range(Years(cd)))
    IN [i \in 1..Len(ys) |->
          [year |-> ys[i],
           avg |-> mean(Avgs(SelectSeq(cd, LAMBDA a : a.year = ys[i])))]]

\* ind_data of one pass of the loop (line 410), before the reindex.
IndData(cd, industry) == SelectSeq(cd, LAMBDA a : a.iname.s = industry)

CompareIndustries ==
    /\ pc = "ready"
    /\ page = "none"
    /\ \E sel \in Selections(IndustryOptions(industry_avg)) :
          /\ page' = "compare"
          /\ query' = NoQuery
          /\ selected_industries' = sel
          /\ result' = <<>>
          /\ unique' = <<>>
          /\ IF sel = <<>>
             THEN /\ detail' = <<>>
                  /\ overall_avg' = <<>>
                  /\ x_data' = <<>>
                  /\ y_data_list' = <<>>
                  /\ raised' = "none"
             ELSE LET names == selected_ind_names(sel)
                      compare_data == CompareData(industry_avg, sel)
                      overall == OverallAvg(compare_data)
                      all_years == unique_values(Years(compare_data))
                      aligned == [i \in 1..Len(names) |->
                                    reindex(IndData(compare_data, names[i]), all_years)]
                      failed == \E i \in 1..Len(names) : aligned[i].err
                  IN /\ detail' = compare_data
                     /\ overall_avg' = overall
                     /\ x_data' = all_years
                     /\ raised' = IF failed THEN "ValueError" ELSE "none"
                     /\ y_data_list' =
                          IF failed THEN <<>>
                          ELSE [i \in 1..(Len(names) + 1) |->
                                  IF i <= Len(names) THEN aligned[i].vals
                                  ELSE reindex(overall, all_years).vals]
    /\ UNCHANGED <<pc, error, raw>>
    /\ Cached(enterprise_data,
              IF selected_industries' = <<>> THEN industry_avg ELSE detail')

(***************************************************************************)
(* Inputs.                                                                 *)
(***************************************************************************)
Tables(rows) == UNION {[1..n -> rows] : n \in 0..MaxRows}

Anomalies(r) == Cardinality({c \in required_columns : r[c].k \notin {"num", "str"}})
                + (IF r.year.k = "num" /\ r.year.d # 1 THEN 1 ELSE 0)

\* Rows of a sheet with at most one empty, textual or fractional cell.
RawRows ==
    {r \in [code : {Str(<<"a">>), NullStr},
            name : {Str(<<"A">>), NullStr},
            year : {Num(2019, 1), Num(2020, 1), Num(4039, 2), NumText(2020, 1),
                    BadText, NaN},
            index : {Num(1, 1), Num(3, 1), BadText, NaN},
            icode : {Str(<<"J">>), NullStr},
            iname : {Str(<<"j">>), NullStr}] : Anomalies(r) <= 1}

Project(r, cols) == [c \in cols |-> r[c]]

OkSources(rows) ==
    {[status |-> "ok", cols |-> required_columns, rows |-> t] : t \in Tables(rows)}

\* A file that is absent, one that cannot be read, and one-row sheets
\* lacking one or two of the required columns.
FailingSources ==
    {[status |-> "notfound", cols |-> {}, rows |-> <<>>],
     [status |-> "unreadable", cols |-> {}, rows |-> <<>>]}
    \cup {[status |-> "ok", cols |-> required_columns \ gone,
           rows |-> <<Project(r, required_columns \ gone)>>] :
            gone \in {{"year"}, {"index"}, {"code", "iname"}},
            r \in {x \in RawRows : Anomalies(x) = 0}}

Sources == OkSources(RawRows) \cup FailingSources

EntQueries == {<<"a">>}
IndQueries == {<<"j">>}

Next ==
    \/ LoadData(Sources)
    \/ Rerun
    \/ RerunCached
    \/ EnterpriseLookup(EntQueries)
    \/ IndustryLookup(IndQueries)
    \/ CompareIndustries

Spec == Init /\ [][Next]_vars

(***************************************************************************)
(* Properties of load_data.                                                *)
(***************************************************************************)
Loaded == pc = "ready"

StringsPresent(r) == notna(r.code) /\ notna(r.name) /\ notna(r.icode) /\ notna(r.iname)

NoTwoRowsEqual(t) == \A i, j \in 1..Len(t) : i # j => t[i] # t[j]

\* The raw index cell is neither empty nor a number.
IndexNotNumeric(r) == r.index.k = "text"

\* Raw row r, complete and with a numeric year, gives cleaned row c apart
\* from the year.
CleanedFrom(c, r) ==
    /\ AllPresent(r)
    /\ c.code = r.code /\ c.name = r.name /\ c.icode = r.icode /\ c.iname = r.iname
    /\ r.year.k \in {"num", "numtext"}
    /\ c.index = (IF r.index.k \in {"num", "numtext"} THEN Num(r.index.n, r.index.d)
                  ELSE NaN)

\* C1 as stated: every cleaned row has all six fields non-null and no two
\* cleaned rows are the same tuple.
C1_AllSixNonNull ==
    Loaded =>
        /\ \A i \in 1..Len(enterprise_data) :
              /\ StringsPresent(enterprise_data[i])
              /\ enterprise_data[i].year \in Int
              /\ notna(enterprise_data[i].index)
        /\ NoTwoRowsEqual(enterprise_data)

\* C1 amended: every cleaned row has entity code, entity name, year,
\* industry code and industry name non-null; its index value is a number, or
\* missing exactly when it comes from a raw row whose index value is not
\* numeric; no two cleaned rows are the same tuple.
C1_FiveNonNullUnique ==
    Loaded =>
        /\ \A i \in 1..Len(enterprise_data) :
              LET c == enterprise_data[i]
              IN /\ StringsPresent(c)
                 /\ c.year \in Int
                 /\ c.index.k \in {"num", "null"}
                 /\ \E j \in 1..Len(raw.rows) :
                       /\ CleanedFrom(c, raw.rows[j])
                       /\ isna(c.index) <=> IndexNotNumeric(raw.rows[j])
        /\ NoTwoRowsEqual(enterprise_data)

\* Two raw rows that differ only in how the year is written, with a
\* non-numeric index, were cleaned into one row with a missing index.
C1_Witness ==
    /\ Loaded
    /\ Len(raw.rows) = 2
    /\ raw.rows[1] # raw.rows[2]
    /\ Len(enterprise_data) = 1
    /\ isna(enterprise_data[1].index)

IsIntegral(cell) == cell.k \in {"num", "numtext"} /\ cell.n % cell.d = 0

\* C7: every cleaned row comes from a raw row whose year is numeric and
\* integral and has that integer as its year; rows with another year value
\* do not appear.
C7_YearIntegralOrDropped ==
    Loaded =>
        \A i \in 1..Len(enterprise_data) :
            \E j \in 1..Len(raw.rows) :
                /\ CleanedFrom(enterprise_data[i], raw.rows[j])
                /\ IsIntegral(raw.rows[j].year)
                /\ enterprise_data[i].year * raw.rows[j].year.d = raw.rows[j].year.n

(***************************************************************************)
(* Properties of the industry averages.                                    *)
(***************************************************************************)
GroupOf(a) ==
    {i \in 1..Len(enterprise_data) :
        /\ enterprise_data[i].icode = a.icode
        /\ enterprise_data[i].iname = a.iname
        /\ enterprise_data[i].year = a.year}

Usable(S) == {i \in S : notna(enterprise_data[i].index)}

RECURSIVE Total(_)
\* The sum of the index values at the positions S, as <<n, d>>.
Total(S) ==
    IF S = {} THEN <<0, 1>>
    ELSE LET i == CHOOSE x \in S : TRUE
             r == Total(S \ {i})
             c == enterprise_data[i].index
         IN <<c.n * r[2] + r[1] * c.d, c.d * r[2]>>

IsMeanOf(avg, S) ==
    IF Usable(S) = {} THEN isna(avg)
    ELSE /\ avg.k = "num"
         /\ avg.n * Total(Usable(S))[2] * Cardinality(Usable(S))
              = Total(Usable(S))[1] * avg.d

\* C2: the industry-average table has exactly one row for each (industry
\* code, industry name, year) of the cleaned table; its avg is the mean of
\* the non-missing index values of the cleaned rows of that key, and missing
\* when there is none.
C2_IndustryAverage ==
    Loaded =>
        /\ \A i \in 1..Len(enterprise_data) :
              Cardinality({j \in 1..Len(industry_avg) :
                              i \in GroupOf(industry_avg[j])}) = 1
        /\ \A j \in 1..Len(industry_avg) :
              /\ GroupOf(industry_avg[j]) # {}
              /\ IsMeanOf(industry_avg[j].avg, GroupOf(industry_avg[j]))

\* A group of two rows, one with a missing index, averaged over the other.
C2_Witness ==
    /\ Loaded
    /\ \E j \in 1..Len(industry_avg) :
          /\ Cardinality(GroupOf(industry_avg[j])) = 2
          /\ Cardinality(Usable(GroupOf(industry_avg[j]))) = 1
          /\ industry_avg[j].avg.k = "num"

(***************************************************************************)
(* Failure of the load; the tables under queries.                          *)
(***************************************************************************)
NothingRendered ==
    /\ page = "none" /\ result = <<>> /\ unique = <<>> /\ detail = <<>>
    /\ x_data = <<>> /\ y_data_list = <<>> /\ overall_avg = <<>>

\* C8: when the file is not found or unreadable or a required column is
\* missing, the run is stopped, no table is bound and no query page has
\* run; tables are bound only by a load without error.
C8_FailedLoadAborts ==
    /\ error.kind # "none" =>
          /\ pc = "stopped"
          /\ enterprise_data = <<>> /\ industry_avg = <<>>
          /\ NothingRendered
    /\ (pc = "ready" \/ page # "none") =>
          /\ error.kind = "none"
          /\ raw.cols = required_columns

\* A sheet with a row but without two required columns stopped the run.
C8_Witness ==
    /\ pc = "stopped"
    /\ error.kind = "SchemaError"
    /\ Cardinality(error.missing) = 2
    /\ raw.rows # <<>>
    /\ enterprise_data = <<>>

\* C9: once loaded, no step changes the cleaned table or the
\* industry-average table.
C9_TablesNeverChange ==
    [][Loaded => /\ pc' = "ready"
                 /\ enterprise_data' = enterprise_data
                 /\ industry_avg' = industry_avg]_vars

\* An enterprise lookup that matched only part of a two-row table.
C9_Witness ==
    /\ Loaded
    /\ page = "enterprise"
    /\ Len(enterprise_data) = 2
    /\ Len(result) = 1

(***************************************************************************)
(* Lookups and comparison over complete sheets.                            *)
(***************************************************************************)
\* Complete rows: two enterprises (index 1 and 3) that may share a name,
\* two industry codes that may share a name; enterprises named "Ab" are in
\* an industry named "j", those named "b" in one named "k".
QueryRows ==
    {r \in [code : {Str(<<"a">>), Str(<<"b">>)},
            name : {Str(<<"A", "b">>), Str(<<"b">>)},
            year : {Num(2019, 1), Num(2020, 1)},
            index : {Num(1, 1), Num(3, 1)},
            icode : {Str(<<"J">>), Str(<<"K">>)},
            iname : {Str(<<"j">>), Str(<<"k">>)}] :
        /\ r.index.n = 1 <=> r.code.s = <<"a">>
        /\ r.iname.s = <<"j">> <=> r.name.s = <<"A", "b">>}

EntStrings == {<<>>, <<"a">>, <<".">>}
IndStrings == {<<>>, <<"j">>, <<".">>}

NextQ ==
    \/ LoadData(OkSources(QueryRows))
    \/ RerunCached
    \/ EnterpriseLookup(EntStrings)
    \/ IndustryLookup(IndStrings)
    \/ CompareIndustries

SpecQ == Init /\ [][NextQ]_vars

BothEmpty == query.code_query = <<>> /\ query.name_query = <<>>

\* s contains q as a literal substring, case ignored.
LiteralContains(s, q) ==
    \E pos \in 1..(Len(s) - Len(q) + 1) :
        \A i \in 1..Len(q) : Lower(q[i]) = Lower(s[pos + i - 1])

LiteralMatch(code, name) ==
    \/ query.code_query # <<>> /\ LiteralContains(code, query.code_query)
    \/ query.name_query # <<>> /\ LiteralContains(name, query.name_query)

\* C3: in both lookups, with queries not both empty, a row is in the result
\* if and only if its code contains the code query or its name contains the
\* name query as a case-insensitive literal substring (an empty query
\* matching nothing).
C3_LiteralSubstringMatch ==
    /\ (page = "enterprise" /\ ~BothEmpty) =>
          Range(result) = {r \in Range(enterprise_data) : LiteralMatch(r.code.s, r.name.s)}
    /\ (page = "industry" /\ ~BothEmpty) =>
          Range(result) = {r \in Range(industry_avg) : LiteralMatch(r.icode.s, r.iname.s)}

(***************************************************************************)
(* Order of a lookup result.                                               *)
(***************************************************************************)
ResName(r) == IF page = "enterprise" THEN r.name.s ELSE r.iname.s
ResCode(r) == IF page = "enterprise" THEN r.code.s ELSE r.icode.s
ResPair(r) == IF page = "enterprise" THEN EntPair(r) ELSE IndPair(r)
ResTable == IF page = "enterprise" THEN enterprise_data ELSE industry_avg

LookupDone == page \in {"enterprise", "industry"} /\ result # <<>>

SameNameYear(r1, r2) == ResName(r1) = ResName(r2) /\ r1.year = r2.year

SortedByNameYear ==
    \A i, j \in 1..Len(result) :
        i < j => \/ SeqLess(Ords(ResName(result[i])), Ords(ResName(result[j])))
                 \/ /\ ResName(result[i]) = ResName(result[j])
                    /\ result[i].year <= result[j].year

PosIn(t, r) == CHOOSE i \in 1..Len(t) : t[i] = r

\* C6 as stated: the result is sorted by (name, year) ascending and rows of
\* equal name and year are in ascending order of code.
C6_TiesByCode ==
    LookupDone =>
        /\ SortedByNameYear
        /\ \A i, j \in 1..Len(result) :
              (i < j /\ SameNameYear(result[i], result[j])) =>
                  ~SeqLess(Ords(ResCode(result[j])), Ords(ResCode(result[i])))

\* C6 amended: the result is sorted by (name, year) ascending; rows of equal
\* name and year keep the order they have in the table looked up; the
\* selection list holds the distinct (code, name) pairs of the result in the
\* order of their first row.
C6_TiesInTableOrder ==
    LookupDone =>
        /\ SortedByNameYear
        /\ \A i, j \in 1..Len(result) :
              (i < j /\ SameNameYear(result[i], result[j])) =>
                  PosIn(ResTable, result[i]) < PosIn(ResTable, result[j])
        /\ Range(unique) = {ResPair(r) : r \in Range(result)}
        /\ ~HasDuplicates(unique)
        /\ \A i, j \in 1..Len(unique) :
              i < j => \E m \in 1..Len(result) :
                          /\ ResPair(result[m]) = unique[i]
                          /\ \A n \in 1..m : ResPair(result[n]) # unique[j]

\* Two enterprises of one name with a row in the same year: the one with
\* the greater code is first in the sheet and first in the result.
C6_Witness ==
    /\ page = "enterprise"
    /\ Len(result) = 2
    /\ SameNameYear(result[1], result[2])
    /\ SeqLess(Ords(result[2].code.s), Ords(result[1].code.s))
    /\ Len(unique) = 2

(***************************************************************************)
(* Alignment and comparison.                                               *)
(***************************************************************************)
\* vals is the series (rows with year and avg) laid out on the axis.
AlignedTo(vals, axis, series) ==
    /\ Len(vals) = Len(axis)
    /\ \A i \in 1..Len(axis) :
          IF \E a \in Range(series) : a.year = axis[i]
          THEN \E a \in Range(series) : a.year = axis[i] /\ vals[i] = a.avg
          ELSE vals[i] = NaN

Compared == page = "compare" /\ selected_industries # <<>>

\* C4: the industry-average series of the enterprise lookup and every
\* per-industry series of the comparison is laid out on the year axis, one
\* value per axis year, missing where the series has no such year, and no
\* error is raised.
C4_AlignedNoError ==
    /\ (page = "enterprise" /\ detail # <<>>) =>
          /\ raised = "none"
          /\ Len(y_data_list) = 2
          /\ AlignedTo(y_data_list[2], x_data, IndustryIndex(industry_avg, detail))
    /\ Compared =>
          /\ raised = "none"
          /\ \A m \in 1..Len(selected_industries) :
                AlignedTo(y_data_list[m], x_data,
                          IndData(detail, SplitName(selected_industries[m])))

\* The avg of the record with exactly this code, name and year.
KeyValue(code, name, year) ==
    LET recs == {a \in Range(industry_avg) :
                    a.icode.s = code /\ a.iname.s = name /\ a.year = year}
    IN IF recs = {} THEN NaN ELSE (CHOOSE a \in recs : TRUE).avg

SelectedValues(year) ==
    [m \in 1..Len(selected_industries) |->
        KeyValue(SplitCode(selected_industries[m]),
                 SplitName(selected_industries[m]), year)]

\* C5: at every year of the axis the composite is the mean of the
\* non-missing values of the selected industries at that year, and missing
\* when all are missing.
C5_CompositeOfSelected ==
    Compared =>
        /\ raised = "none"
        /\ Len(y_data_list) = Len(selected_industries) + 1
        /\ \A i \in 1..Len(x_data) :
              y_data_list[Len(y_data_list)][i] = mean(SelectedValues(x_data[i]))

SelectedKeys ==
    {[code |-> SplitCode(selected_industries[m]),
      name |-> SplitName(selected_industries[m])] :
        m \in 1..Len(selected_industries)}

\* C10: each selected industry's series holds, at every axis year, the avg
\* of the record with exactly its code, name and that year; the axis has
\* only years of records of selected (code, name) keys; no selection raises
\* an error.
C10_SeriesByCodeAndName ==
    Compared =>
        /\ raised = "none"
        /\ \A m \in 1..Len(selected_industries) :
              /\ Len(y_data_list[m]) = Len(x_data)
              /\ \A i \in 1..Len(x_data) :
                    y_data_list[m][i] = SelectedValues(x_data[i])[m]
        /\ \A i \in 1..Len(x_data) :
              \E a \in Range(industry_avg) :
                  /\ a.year = x_data[i]
                  /\ [code |-> a.icode.s, name |-> a.iname.s] \in SelectedKeys

\* No two industries of the table share a name, none shares a code.
KeysDistinct ==
    \A a, b \in Range(industry_avg) :
        (a.iname = b.iname <=> a.icode = b.icode)

\* The years for which a selected (code, name) industry has a record.
SelectedYears ==
    {a.year : a \in {b \in Range(industry_avg) :
                        [code |-> b.icode.s, name |-> b.iname.s] \in SelectedKeys}}

\* C11: the year axis handed to the chart holds every year for which a
\* selected industry has a record, each once, in strictly ascending order.
C11_AxisAscending ==
    (Compared /\ raised = "none") =>
        /\ SelectedYears \subseteq Range(x_data)
        /\ \A i, j \in 1..Len(x_data) : i < j => x_data[i] < x_data[j]
====
